---- MODULE Spec2Model ----
(***************************************************************************)
(* Model of the TSMC ADR converter backend (src/backend/api_server.py):    *)
(* the quota ledger, the daily snapshot cache, the price fetchers, the     *)
(* snapshot refresh get_cached_prices and the historical backfill          *)
(* fetch_historical_data.                                                  *)
(*                                                                         *)
(* Dates are day numbers (an ISO date string orders as its day number);    *)
(* a timestamp is a clock value, and its date is Date(timestamp).          *)
(* Python's None is the number None; a dict is a function whose DOMAIN is   *)
(* its key set, so d.get(k) and d[k] differ on a missing key.              *)
(*                                                                         *)
(* The request handlers are 'async def' functions whose bodies never       *)
(* await: one handler holds the event loop from its first line to its      *)
(* return. A handler is modelled as the sequence of its statements, each   *)
(* step guarded by EventLoop.                                              *)
(*                                                                         *)
(* Spec is the snapshot refresh statement by statement, SpecHist the       *)
(* historical backfill over the days, both on files whose writes succeed;  *)
(* SpecApi runs each handler as one step, as the event loop does, on files *)
(* whose writes may fail. SpecLedger is the quota ledger with its two      *)
(* operations called in any order, SpecFetch the free fetchers on every    *)
(* answer of their upstreams, SpecLongFeed the backfill on feeds of more   *)
(* than 30 entries, SpecCallApi the frontend's call_api.                   *)
(***************************************************************************)
EXTENDS Integers, Sequences, FiniteSets, TLC

VARIABLES
    now,        \* the clock: datetime.datetime.now()
    cache,      \* daily_prices_cache.json (CACHE_FILE), a dict
    usage,      \* api_usage_log.json (API_USAGE_FILE): date -> {calls, log}
    pc,         \* per request: the statement of the handler it is at
    loc,        \* per request: the handler's local variables, with the
                \* fetchers it called and the requests it sent so far
    ret,        \* history: the last return of get_cached_prices on this date
    first_fresh,     \* history: the first fresh_api_call return on this date
    requests_today,  \* history: GLOBAL_QUOTE requests sent on this date
    records_today,   \* history: record_api_call invocations on this date
    saves_today,     \* history: save_cache calls made on this date
    history,    \* price_history_cache.json: the date-keyed records
    last_fetch_date,  \* price_history_cache.json: the 'last_fetch_date' key
    hret,       \* history: the last response of get_historical_data
    hrequests_today,  \* history: TIME_SERIES_DAILY requests sent on this date
    backfilled_today, \* history: a backfill pass completed on this date
    last_pass,  \* history: the feed, its entries taken, the local closes and
                \* the store the last backfill pass of this date worked on
    resp        \* history: the response of the handler that ran last, with
                \* what it asked of the upstreams

vars == <<now, cache, usage, pc, loc, ret, first_fresh, requests_today,
          records_today, saves_today, history, last_fetch_date, hret, hrequests_today,
          backfilled_today, last_pass, resp>>

priceVars == <<cache, usage, pc, loc, ret, first_fresh, requests_today,
               records_today, saves_today>>
histVars == <<history, last_fetch_date, hret, hrequests_today, backfilled_today,
              last_pass>>

----------------------------------------------------------------------------
(* Bounds of the model *)

NumReq == 2          \* request slots that may be in flight
TicksPerDay == 2     \* clock values per calendar date
MaxClock == 3        \* the snapshot model stops the clock here
MaxRequests == 3     \* no new refresh once a date saw this many requests
HistStartDay == 3    \* the historical model's first date
MaxDay == 64         \* the historical model's last date
MaxFeed == 2         \* entries of the longest TIME_SERIES_DAILY answer
MaxHistRequests == 2 \* no new historical call once a date saw this many requests
NearDays == 1        \* the historical model's first dates follow day by day
MaxApiDays == 1      \* date changes of the whole-handler model
MaxLedgerCalls == 3  \* the ledger model records no more calls than this on a date
LongFeed == 31       \* entries of the longest answer of the long-feed model

(* Program constants *)

MAX_API_CALLS_PER_DAY == 2
RETENTION_DAYS == 60
ROC_OFFSET == 1911
None == -1
Exception == -2      \* in place of a value: an exception left the function

Req == 1..NumReq
Date(t) == t \div TicksPerDay
today == Date(now)

AdrPrices == {150, 155}
TwPrices == {800}
FxRates == {32}

----------------------------------------------------------------------------
(* dicts *)

EmptyDict == [k \in {} |-> None]

Get(d, k) == IF k \in DOMAIN d THEN d[k] ELSE None

Put(d, k, v) == [x \in DOMAIN d \cup {k} |-> IF x = k THEN v ELSE d[x]]

----------------------------------------------------------------------------
(* Cache management *)

\* a variant that also wants the free fields present
is_cache_valid_complete(cache_data) ==
    /\ Get(cache_data, "date") = today
    /\ Get(cache_data, "tw_price") # None
    /\ Get(cache_data, "usd_twd") # None

is_cache_valid(cache_data) == Get(cache_data, "date") = today

calls_today(u) == IF today \in DOMAIN u THEN u[today].calls ELSE 0

\* a variant that counts the calls of every date in the ledger
RECURSIVE CallsOfDates(_, _)
CallsOfDates(u, dates) ==
    IF dates = {} THEN 0
    ELSE LET d == CHOOSE x \in dates : TRUE
         IN  u[d].calls + CallsOfDates(u, dates \ {d})

check_api_limit_all_dates ==
    CallsOfDates(usage, DOMAIN usage) < MAX_API_CALLS_PER_DAY

\* a variant that still passes when the count has reached the limit
check_api_limit_inclusive == calls_today(usage) <= MAX_API_CALLS_PER_DAY

check_api_limit == calls_today(usage) < MAX_API_CALLS_PER_DAY

\* a variant that refuses at the limit
record_api_call_gated(u, api_name) ==
    LET base == IF today \in DOMAIN u THEN u[today]
                ELSE [calls |-> 0, log |-> <<>>]
    IN  IF base.calls >= MAX_API_CALLS_PER_DAY THEN u
        ELSE Put(u, today,
                 [calls |-> base.calls + 1,
                  log |-> Append(base.log, [api |-> api_name, timestamp |-> now])])

record_api_call(u, api_name) ==
    LET base == IF today \in DOMAIN u THEN u[today]
                ELSE [calls |-> 0, log |-> <<>>]
    IN  Put(u, today,
            [calls |-> base.calls + 1,
             log |-> Append(base.log, [api |-> api_name, timestamp |-> now])])

----------------------------------------------------------------------------
(* Upstream responses and their parsing *)

\* float(s) on the strings the model's responses carry; anything else raises
IsNumeric(s) == s \in {"150", "155", "800", "32", "0"}

Float(s) ==
    CASE s = "150" -> 150
      [] s = "155" -> 155
      [] s = "800" -> 800
      [] s = "32" -> 32
      [] s = "0" -> 0

\* Python truthiness of a str-or-None field ("None" stands for a missing key)
Truthy(s) == s \notin {"None", ""}

\* GLOBAL_QUOTE: requests.get raised, res.json() raised, or a JSON body
\* without/with "Global Quote" whose "05. price" is a number, absent or junk
AdrResponses ==
    {[kind |-> k, price |-> "None"] : k \in {"exception", "not_json", "no_quote"}}
    \cup {[kind |-> "quote", price |-> p] : p \in {"150", "155", "None", "abc"}}

\* the statement of fetch_adr_price the response lets it reach: record_api_call
\* at line 167 runs only when requests.get and res.json() returned
ReachesRecord(res) == res.kind \in {"no_quote", "quote"}

\* lines 170-176 on a recorded response
ParseAdr(res) ==
    IF res.kind = "quote" /\ IsNumeric(res.price) THEN Float(res.price) ELSE None

\* getStockInfo.jsp: exception, or JSON with msgArray empty or holding z and p
TwFields == {"None", "", "-", "800"}

TwResponses ==
    {[kind |-> k, z |-> "None", p |-> "None"] : k \in {"exception", "empty"}}
    \cup {[kind |-> "msg", z |-> z, p |-> p] : z \in TwFields, p \in TwFields}

fetch_tw_price(res) ==
    IF res.kind # "msg" THEN None
    ELSE LET price == IF Truthy(res.z) THEN res.z ELSE res.p
         IN  IF Truthy(price) /\ price # "-"
             THEN (IF IsNumeric(price) THEN Float(price) ELSE None)
             ELSE None

\* rate.bot.com.tw CSV: exception, or rows; a row is its comma-split fields
\* and whether its text contains "USD"
FxRow(width, v) == [usd |-> TRUE, fields |-> [i \in 1..width |-> IF i = width THEN v ELSE "x"]]

FxResponses ==
    {[kind |-> "exception", rows |-> <<>>], [kind |-> "text", rows |-> <<>>],
     [kind |-> "text", rows |-> <<[usd |-> FALSE, fields |-> <<"EUR">>]>>],
     [kind |-> "text", rows |-> <<FxRow(13, "32")>>],
     [kind |-> "text", rows |-> <<FxRow(13, "abc")>>],
     [kind |-> "text", rows |-> <<FxRow(3, "32")>>]}

IsUsd(row) == row.usd

\* a variant without the try/except of lines 197 and 204-206
fetch_usd_twd_unguarded(res) ==
    IF res.kind = "exception" THEN Exception
    ELSE LET usd_row == SelectSeq(res.rows, IsUsd)
         IN  IF usd_row # <<>>
             THEN (IF Len(usd_row[1].fields) >= 13 /\ IsNumeric(usd_row[1].fields[13])
                   THEN Float(usd_row[1].fields[13]) ELSE Exception)
             ELSE None

fetch_usd_twd(res) ==
    IF res.kind = "exception" THEN None
    ELSE LET usd_row == SelectSeq(res.rows, IsUsd)
         IN  IF usd_row # <<>>
             THEN (IF Len(usd_row[1].fields) >= 13 /\ IsNumeric(usd_row[1].fields[13])
                   THEN Float(usd_row[1].fields[13]) ELSE None)
             ELSE None

----------------------------------------------------------------------------
(* get_cached_prices: the dicts it builds *)

\* lines 213-219: the fast path's return value
ValidResult(c) ==
    [adr_price |-> Get(c, "adr_price"), tw_price |-> Get(c, "tw_price"),
     usd_twd |-> Get(c, "usd_twd"), last_updated |-> Get(c, "last_updated"),
     cache_date |-> Get(c, "date")]

\* a variant that drops the free pair unless both were fetched
FreshCacheAllOrNothing(adr_price, tw_price, usd_twd) ==
    LET both == tw_price # None /\ usd_twd # None
    IN  [date |-> today, adr_price |-> adr_price,
         tw_price |-> IF both THEN tw_price ELSE None,
         usd_twd |-> IF both THEN usd_twd ELSE None,
         last_updated |-> now, data_source |-> "fresh_api_call"]

\* lines 233-240: the dict save_cache persists
FreshCache(adr_price, tw_price, usd_twd) ==
    [date |-> today, adr_price |-> adr_price, tw_price |-> tw_price,
     usd_twd |-> usd_twd, last_updated |-> now, data_source |-> "fresh_api_call"]

\* lines 244-251
FreshResult(adr_price, tw_price, usd_twd) ==
    [adr_price |-> adr_price, tw_price |-> tw_price, usd_twd |-> usd_twd,
     last_updated |-> now, cache_date |-> today, data_source |-> "fresh_api_call"]

\* a variant that answers the cached free pair instead of the fetched one
LimitedResultStale(c, tw_price, usd_twd) ==
    [adr_price |-> Get(c, "adr_price"), tw_price |-> Get(c, "tw_price"),
     usd_twd |-> Get(c, "usd_twd"),
     last_updated |-> Get(c, "last_updated"), cache_date |-> Get(c, "date"),
     data_source |-> "cached_due_to_api_limit"]

\* a variant that subscripts the cache (cache['adr_price']) instead of .get
LimitedResultSubscript(c, tw_price, usd_twd) ==
    IF "adr_price" \notin DOMAIN c THEN [exception |-> "KeyError"]
    ELSE [adr_price |-> c["adr_price"], tw_price |-> tw_price, usd_twd |-> usd_twd,
          last_updated |-> Get(c, "last_updated"), cache_date |-> Get(c, "date"),
          data_source |-> "cached_due_to_api_limit"]

\* a variant that dates the cached receipt price as of this call
LimitedResultRedated(c, tw_price, usd_twd) ==
    [adr_price |-> Get(c, "adr_price"), tw_price |-> tw_price, usd_twd |-> usd_twd,
     last_updated |-> now, cache_date |-> today,
     data_source |-> "cached_due_to_api_limit"]

\* lines 255-262
LimitedResult(c, tw_price, usd_twd) ==
    [adr_price |-> Get(c, "adr_price"), tw_price |-> tw_price, usd_twd |-> usd_twd,
     last_updated |-> Get(c, "last_updated"), cache_date |-> Get(c, "date"),
     data_source |-> "cached_due_to_api_limit"]

\* what an uncaught exception leaves in place of a return value
Raised == [exception |-> "KeyError"]

NotReturned == [value |-> EmptyDict, fetched |-> {}]

\* no response of get_historical_data yet
NoResponse == [status_code |-> 0, data |-> <<>>]

\* no handler ran yet
NoCall == [handler |-> "none"]

\* no backfill pass yet
NoPass == [feed |-> <<>>, entries |-> <<>>, tw_price |-> <<>>, before |-> EmptyDict]

\* lines 352-359: get_current_prices answers PriceData(**prices), or 500;
\* the five fields of PriceData (lines 54-59) are Optional, so None passes
PriceData(prices) ==
    [k \in {"adr_price", "tw_price", "usd_twd", "last_updated", "cache_date"}
       |-> prices[k]]

get_current_prices(prices) ==
    IF prices = Raised THEN [status_code |-> 500] ELSE PriceData(prices)

\* the 'data_source' a returned dict carries, if it carries one
Source(value) ==
    IF "data_source" \in DOMAIN value THEN value["data_source"] ELSE "absent"

InitLoc == [cache |-> EmptyDict, usage |-> EmptyDict, res |-> [kind |-> "exception", price |-> "None"],
            adr_price |-> None, tw_price |-> None, usd_twd |-> None,
            fetched |-> {}, requests |-> <<>>]

----------------------------------------------------------------------------
(* The event loop *)

\* a variant: 'def' handlers, which the framework runs in a thread pool
ThreadPool(r) == TRUE

\* an 'async def' handler without await runs from start to return before the
\* loop serves another request
EventLoop(r) == \A q \in Req \ {r} : pc[q] = "idle"

----------------------------------------------------------------------------
(* GET /api/prices: get_current_prices -> get_cached_prices *)

\* the return statement: the value goes to the caller, the locals are gone
Return(r, value, fetchers) ==
    /\ ret' = [value |-> value, fetched |-> fetchers]
    /\ first_fresh' =
         IF first_fresh = EmptyDict /\ Source(value) = "fresh_api_call"
         THEN value ELSE first_fresh
    /\ pc' = [pc EXCEPT ![r] = "idle"]
    /\ loc' = [loc EXCEPT ![r] = InitLoc]

\* lines 210-219
GetCachedPrices_Load(r) ==
    /\ pc[r] = "idle"
    /\ EventLoop(r)
    /\ requests_today < MaxRequests
    /\ IF is_cache_valid(cache)
       THEN Return(r, ValidResult(cache), {})
       ELSE /\ pc' = [pc EXCEPT ![r] = "check"]
            /\ loc' = [loc EXCEPT ![r] = [InitLoc EXCEPT !.cache = cache]]
            /\ UNCHANGED <<ret, first_fresh>>
    /\ UNCHANGED <<now, cache, usage, requests_today, records_today, saves_today,
                   histVars, resp>>

\* lines 157-159 of fetch_adr_price
FetchAdr_Check(r) ==
    /\ pc[r] = "check"
    /\ EventLoop(r)
    /\ loc' = [loc EXCEPT ![r].fetched = @ \cup {"adr"}]
    /\ pc' = [pc EXCEPT ![r] = IF check_api_limit THEN "request" ELSE "tw"]
    /\ UNCHANGED <<now, cache, usage, ret, first_fresh, requests_today,
                   records_today, saves_today, histVars, resp>>

\* lines 161-164 and, when requests.get or res.json() raises, 174-176
FetchAdr_Request(r) ==
    /\ pc[r] = "request"
    /\ EventLoop(r)
    /\ \E res \in AdrResponses :
         /\ loc' = [loc EXCEPT ![r].res = res,
                                ![r].requests = Append(@, "adr")]
         /\ pc' = [pc EXCEPT ![r] = IF ReachesRecord(res) THEN "record" ELSE "tw"]
    /\ requests_today' = requests_today + 1
    /\ UNCHANGED <<now, cache, usage, ret, first_fresh, records_today, saves_today,
                   histVars, resp>>

\* line 167 entering record_api_call: lines 135-137, load_api_usage
FetchAdr_RecordLoad(r) ==
    /\ pc[r] = "record"
    /\ EventLoop(r)
    /\ loc' = [loc EXCEPT ![r].usage = usage]
    /\ records_today' = records_today + 1
    /\ pc' = [pc EXCEPT ![r] = "save"]
    /\ UNCHANGED <<now, cache, usage, ret, first_fresh, requests_today, saves_today,
                   histVars, resp>>

\* lines 139-149, save_api_usage, then lines 170-173 (174-176 when the price
\* does not parse)
FetchAdr_RecordSave(r) ==
    /\ pc[r] = "save"
    /\ EventLoop(r)
    /\ usage' = record_api_call(loc[r].usage, "ALPHA_VANTAGE_ADR")
    /\ loc' = [loc EXCEPT ![r].adr_price = ParseAdr(loc[r].res),
                           ![r].res = InitLoc.res,
                           ![r].usage = EmptyDict]
    /\ pc' = [pc EXCEPT ![r] = "tw"]
    /\ UNCHANGED <<now, cache, ret, first_fresh, requests_today, records_today,
                   saves_today, histVars, resp>>

\* a variant that asks getStockInfo.jsp a second time when the first answer
\* gave no price
FetchTwRetry(r) ==
    /\ pc[r] = "tw"
    /\ EventLoop(r)
    /\ \E res \in TwResponses :
         /\ loc' = [loc EXCEPT ![r].tw_price = fetch_tw_price(res),
                                ![r].fetched = @ \cup {"tw"},
                                ![r].requests = Append(@, "tw")]
         /\ pc' = [pc EXCEPT ![r] =
                     IF fetch_tw_price(res) = None /\ "tw" \notin loc[r].fetched
                     THEN "tw" ELSE "fx"]
    /\ UNCHANGED <<now, cache, usage, ret, first_fresh, requests_today,
                   records_today, saves_today, histVars, resp>>

\* line 225
FetchTw(r) ==
    /\ pc[r] = "tw"
    /\ EventLoop(r)
    /\ \E res \in TwResponses :
         loc' = [loc EXCEPT ![r].tw_price = fetch_tw_price(res),
                            ![r].fetched = @ \cup {"tw"},
                            ![r].requests = Append(@, "tw")]
    /\ pc' = [pc EXCEPT ![r] = "fx"]
    /\ UNCHANGED <<now, cache, usage, ret, first_fresh, requests_today,
                   records_today, saves_today, histVars, resp>>

\* line 226
FetchUsdTwd(r) ==
    /\ pc[r] = "fx"
    /\ EventLoop(r)
    /\ \E res \in FxResponses :
         loc' = [loc EXCEPT ![r].usd_twd = fetch_usd_twd(res),
                            ![r].fetched = @ \cup {"fx"},
                            ![r].requests = Append(@, "fx")]
    /\ pc' = [pc EXCEPT ![r] = "finish"]
    /\ UNCHANGED <<now, cache, usage, ret, first_fresh, requests_today,
                   records_today, saves_today, histVars, resp>>

\* a variant that also persists the result it builds without a receipt price
GetCachedPrices_FinishPersistLimited(r) ==
    /\ pc[r] = "finish"
    /\ EventLoop(r)
    /\ IF loc[r].adr_price # None
       THEN /\ cache' = FreshCache(loc[r].adr_price, loc[r].tw_price, loc[r].usd_twd)
            /\ saves_today' = saves_today + 1
            /\ Return(r, FreshResult(loc[r].adr_price, loc[r].tw_price, loc[r].usd_twd),
                      loc[r].fetched)
       ELSE /\ cache' = [date |-> today, adr_price |-> Get(loc[r].cache, "adr_price"),
                         tw_price |-> loc[r].tw_price, usd_twd |-> loc[r].usd_twd,
                         last_updated |-> Get(loc[r].cache, "last_updated"),
                         data_source |-> "cached_due_to_api_limit"]
            /\ Return(r, LimitedResult(loc[r].cache, loc[r].tw_price, loc[r].usd_twd),
                      loc[r].fetched)
            /\ UNCHANGED saves_today
    /\ UNCHANGED <<now, usage, requests_today, records_today, histVars, resp>>

\* a variant without the test of line 229: it persists whatever it fetched
GetCachedPrices_FinishAlwaysSave(r) ==
    /\ pc[r] = "finish"
    /\ EventLoop(r)
    /\ cache' = FreshCache(loc[r].adr_price, loc[r].tw_price, loc[r].usd_twd)
    /\ saves_today' = saves_today + 1
    /\ Return(r, FreshResult(loc[r].adr_price, loc[r].tw_price, loc[r].usd_twd),
              loc[r].fetched)
    /\ UNCHANGED <<now, usage, requests_today, records_today, histVars, resp>>

\* lines 229-262
GetCachedPrices_Finish(r) ==
    /\ pc[r] = "finish"
    /\ EventLoop(r)
    /\ IF loc[r].adr_price # None
       THEN /\ cache' = FreshCache(loc[r].adr_price, loc[r].tw_price, loc[r].usd_twd)
            /\ saves_today' = saves_today + 1
            /\ Return(r, FreshResult(loc[r].adr_price, loc[r].tw_price, loc[r].usd_twd),
                      loc[r].fetched)
       ELSE /\ Return(r, LimitedResult(loc[r].cache, loc[r].tw_price, loc[r].usd_twd),
                      loc[r].fetched)
            /\ UNCHANGED <<cache, saves_today>>
    /\ UNCHANGED <<now, usage, requests_today, records_today, histVars, resp>>

\* time passes between requests; the history variables are per date
Tick ==
    /\ \A r \in Req : pc[r] = "idle"
    /\ now < MaxClock
    /\ now' = now + 1
    /\ IF Date(now + 1) # Date(now)
       THEN /\ ret' = NotReturned
            /\ first_fresh' = EmptyDict
            /\ requests_today' = 0
            /\ records_today' = 0
            /\ saves_today' = 0
            /\ hrequests_today' = 0
            /\ backfilled_today' = FALSE
            /\ hret' = NoResponse
            /\ last_pass' = NoPass
       ELSE UNCHANGED <<ret, first_fresh, requests_today, records_today, saves_today,
                        hrequests_today, backfilled_today, hret, last_pass>>
    /\ UNCHANGED <<cache, usage, pc, loc, history, last_fetch_date, resp>>

----------------------------------------------------------------------------
(* GET /api/historical: get_historical_data -> fetch_historical_data *)

Min(S) == CHOOSE x \in S : \A y \in S : x <= y

\* line 276: the exchange's calendar counts years from 1911
ToRoc(date) == date - ROC_OFFSET

\* STOCK_DAY: exception, a body without rows, or the month's rows, each its
\* date in the exchange's calendar and its closing price
TwDayResponses(date) ==
    {[kind |-> "exception", rows |-> <<>>], [kind |-> "json", rows |-> <<>>],
     [kind |-> "json", rows |-> <<[date |-> ToRoc(date - 1), close |-> "800"]>>],
     [kind |-> "json", rows |-> <<[date |-> ToRoc(date - 1), close |-> "--"],
                                  [date |-> ToRoc(date), close |-> "800"]>>],
     [kind |-> "json", rows |-> <<[date |-> ToRoc(date), close |-> "--"]>>]}

\* lines 264-290
fetch_tw_price_by_date(date_str, res) ==
    IF res.kind = "exception" THEN None
    ELSE IF Len(res.rows) > 0
         THEN LET target_date == ToRoc(date_str)
                  hits == {i \in 1..Len(res.rows) : res.rows[i].date = target_date}
              IN  IF hits = {} THEN None
                  ELSE LET price_str == res.rows[Min(hits)].close
                       IN  IF IsNumeric(price_str) THEN Float(price_str) ELSE None
         ELSE None

\* TIME_SERIES_DAILY: exception, a non-JSON body, JSON without the series, or
\* the series, newest date first; off is 0 when today already has an entry
FeedEntries(n, off, close) ==
    [i \in 1..n |-> [date |-> today - off - (i - 1),
                     close |-> IF i = 1 THEN close ELSE "150"]]

FeedResponses ==
    {[kind |-> k, series |-> <<>>] : k \in {"exception", "not_json", "no_series"}}
    \cup {[kind |-> "series", series |-> FeedEntries(n, off, close)] :
            n \in 0..MaxFeed, off \in {0, 1}, close \in {"150", "155", "abc"}}

\* the STOCK_DAY answers of one pass: one for the date of each feed entry
RECURSIVE TwAnswers(_, _)
TwAnswers(entries, i) ==
    IF i > Len(entries) THEN {<<>>}
    ELSE {<<res>> \o rest : res \in TwDayResponses(entries[i].date),
                            rest \in TwAnswers(entries, i + 1)}

\* a variant without the slice: every entry of the feed
FirstAll(series) == series

\* line 311: list(daily_data.items())[:30]
First30(series) == SubSeq(series, 1, IF Len(series) < 30 THEN Len(series) ELSE 30)

\* lines 326-331
HistoricalRecord(date_str, adr_price, tw_price) ==
    [adr_price |-> adr_price, tw_price |-> tw_price, usd_twd |-> 32,
     timestamp |-> date_str]

\* d without the key k
Del(d, k) == [x \in DOMAIN d \ {k} |-> d[x]]

\* a variant that drops the stored record of a date whose local close is missing
RECURSIVE BackfillEvict(_, _, _, _)
BackfillEvict(h, entries, tw, i) ==
    IF i > Len(entries) THEN h
    ELSE LET date_str == entries[i].date
             tw_price == fetch_tw_price_by_date(date_str, tw[i])
         IN  IF ~IsNumeric(entries[i].close)
             THEN BackfillEvict(h, entries, tw, i + 1)
             ELSE IF tw_price = None
             THEN BackfillEvict(Del(h, date_str), entries, tw, i + 1)
             ELSE BackfillEvict(Put(h, date_str,
                                    HistoricalRecord(date_str, Float(entries[i].close),
                                                     tw_price)),
                                entries, tw, i + 1)

\* a variant without the 'continue' of lines 322-324
RECURSIVE BackfillPartial(_, _, _, _)
BackfillPartial(h, entries, tw, i) ==
    IF i > Len(entries) THEN h
    ELSE LET date_str == entries[i].date
             tw_price == fetch_tw_price_by_date(date_str, tw[i])
         IN  IF ~IsNumeric(entries[i].close)
             THEN BackfillPartial(h, entries, tw, i + 1)
             ELSE BackfillPartial(Put(h, date_str,
                                      HistoricalRecord(date_str, Float(entries[i].close),
                                                       tw_price)),
                                  entries, tw, i + 1)

\* lines 311-334: the loop over the feed's entries; tw[i] is the STOCK_DAY
\* answer for the i-th entry
RECURSIVE Backfill(_, _, _, _)
Backfill(h, entries, tw, i) ==
    IF i > Len(entries) THEN h
    ELSE LET date_str == entries[i].date
             tw_price == fetch_tw_price_by_date(date_str, tw[i])
         IN  IF ~IsNumeric(entries[i].close) \/ tw_price = None
             THEN Backfill(h, entries, tw, i + 1)
             ELSE Backfill(Put(h, date_str,
                               HistoricalRecord(date_str, Float(entries[i].close),
                                                tw_price)),
                           entries, tw, i + 1)

\* lines 405-418
HistoricalEntry(date_str, record) ==
    LET adr_in_twd == (record.adr_price \div 5) * record.usd_twd
        difference == adr_in_twd - record.tw_price
    IN  [date |-> date_str, adr_price_usd |-> record.adr_price,
         tw_price |-> record.tw_price, usd_twd |-> record.usd_twd,
         adr_in_twd |-> adr_in_twd, difference |-> difference,
         difference_percent |-> (difference * 100) \div record.tw_price]

\* a variant whose range runs through today: range(30, -1, -1)
RECURSIVE SeriesThroughToday(_, _)
SeriesThroughToday(h, i) ==
    IF i = -1 THEN <<>>
    ELSE LET date_str == today - i
         IN  (IF date_str \in DOMAIN h
              THEN <<HistoricalEntry(date_str, h[date_str])>> ELSE <<>>)
             \o SeriesThroughToday(h, i - 1)

\* lines 396-420: the dates today-30 .. today-1, oldest first
RECURSIVE Series(_, _)
Series(h, i) ==
    IF i = 0 THEN <<>>
    ELSE LET date_str == today - i
         IN  (IF date_str \in DOMAIN h
              THEN <<HistoricalEntry(date_str, h[date_str])>> ELSE <<>>)
             \o Series(h, i - 1)

\* lines 406-408 raise on a record whose field is None (TypeError) or whose
\* tw_price is 0 (ZeroDivisionError)
EntryRaises(record) ==
    \/ record.adr_price = None
    \/ record.usd_twd = None
    \/ record.tw_price = None
    \/ record.tw_price = 0

\* lines 392-422: the response built from the store fetch_historical_data
\* returned; an exception in the loop is answered with status 500
get_historical_data(h) ==
    IF \E i \in 1..30 : (today - i) \in DOMAIN h /\ EntryRaises(h[today - i])
    THEN [status_code |-> 500, data |-> <<>>]
    ELSE [status_code |-> 200, data |-> Series(h, 30)]

\* the ways the loop of lines 311-334 can go over these entries: the store it
\* leaves and what fetch_tw_price_by_date returned for each entry, over every
\* STOCK_DAY answer
Passes(entries) ==
    {[history |-> Backfill(history, entries, tw, 1),
      tw_price |-> [i \in 1..Len(entries) |->
                      fetch_tw_price_by_date(entries[i].date, tw[i])]] :
        tw \in TwAnswers(entries, 1)}

\* a variant that sets last_fetch_date although the feed gave no series
GetHistoricalDataAdvance ==
    /\ \A r \in Req : pc[r] = "idle"
    /\ hrequests_today < MaxHistRequests
    /\ IF last_fetch_date = today
       THEN /\ hret' = get_historical_data(history)
            /\ UNCHANGED <<history, last_fetch_date, hrequests_today, backfilled_today,
                           last_pass>>
       ELSE \E res \in FeedResponses :
              /\ hrequests_today' = hrequests_today + 1
              /\ last_fetch_date' = today
              /\ IF res.kind = "series"
                 THEN \E pass \in Passes(First30(res.series)) :
                        LET h == pass.history
                        IN  /\ history' = h
                            /\ last_pass' =
                                 [feed |-> res.series,
                                  entries |-> First30(res.series),
                                  tw_price |-> pass.tw_price,
                                  before |-> history]
                            /\ backfilled_today' = TRUE
                            /\ hret' = get_historical_data(h)
                 ELSE /\ hret' = get_historical_data(history)
                      /\ UNCHANGED <<history, backfilled_today, last_pass>>
    /\ UNCHANGED <<now, priceVars, resp>>

\* lines 389-422 with fetch_historical_data, lines 292-343; the handler holds
\* the event loop from its first line to its return
GetHistoricalData ==
    /\ \A r \in Req : pc[r] = "idle"
    /\ hrequests_today < MaxHistRequests
    /\ IF last_fetch_date = today
       THEN /\ hret' = get_historical_data(history)
            /\ UNCHANGED <<history, last_fetch_date, hrequests_today, backfilled_today,
                           last_pass>>
       ELSE \E res \in FeedResponses :
              /\ hrequests_today' = hrequests_today + 1
              /\ IF res.kind = "series"
                 THEN \E pass \in Passes(First30(res.series)) :
                        LET h == pass.history
                        IN  /\ history' = h
                            /\ last_pass' =
                                 [feed |-> res.series,
                                  entries |-> First30(res.series),
                                  tw_price |-> pass.tw_price,
                                  before |-> history]
                            /\ last_fetch_date' = today
                            /\ backfilled_today' = TRUE
                            /\ hret' = get_historical_data(h)
                 ELSE /\ hret' = get_historical_data(history)
                      /\ UNCHANGED <<history, last_fetch_date, backfilled_today,
                                     last_pass>>
    /\ UNCHANGED <<now, priceVars, resp>>

\* days pass between requests; the history variables are per date
DaysPass ==
    /\ \A r \in Req : pc[r] = "idle"
    /\ \E k \in {1, 31, 61} :
         /\ (k = 1) => (today - HistStartDay < NearDays)
         /\ today + k <= MaxDay
         /\ now' = (today + k) * TicksPerDay
    /\ hrequests_today' = 0
    /\ backfilled_today' = FALSE
    /\ hret' = NoResponse
    /\ last_pass' = NoPass
    /\ UNCHANGED <<priceVars, history, last_fetch_date, resp>>

InitHist ==
    /\ now = HistStartDay * TicksPerDay
    /\ cache = EmptyDict
    /\ usage = EmptyDict
    /\ pc = [r \in Req |-> "idle"]
    /\ loc = [r \in Req |-> InitLoc]
    /\ ret = NotReturned
    /\ first_fresh = EmptyDict
    /\ requests_today = 0
    /\ records_today = 0
    /\ saves_today = 0
    /\ history = EmptyDict
    /\ last_fetch_date = None
    /\ hret = NoResponse
    /\ hrequests_today = 0
    /\ backfilled_today = FALSE
    /\ last_pass = NoPass
    /\ resp = NoCall

NextHist ==
    \/ GetHistoricalData
    \/ DaysPass

SpecHist == InitHist /\ [][NextHist]_vars

----------------------------------------------------------------------------
(* The historical backfill on feeds of about a month, as TIME_SERIES_DAILY  *)
(* answers them; the STOCK_DAY answers follow a few patterns                *)

\* TIME_SERIES_DAILY with the series present, of LongFeed - 1 or LongFeed
\* entries
LongFeedResponses ==
    {[kind |-> "series", series |-> FeedEntries(n, off, close)] :
        n \in {LongFeed - 1, LongFeed}, off \in {0, 1}, close \in {"150", "155"}}

\* STOCK_DAY answers: the month's row of the date, or an exception
TwDayAnswer(date, ok) ==
    IF ok THEN [kind |-> "json", rows |-> <<[date |-> ToRoc(date), close |-> "800"]>>]
    ELSE [kind |-> "exception", rows |-> <<>>]

\* which entries get no local close: none, all, the first, the last, every
\* other one
LongTwAnswers(entries) ==
    LET n == Len(entries)
    IN  {[i \in 1..n |-> TwDayAnswer(entries[i].date, i \notin F)] :
            F \in {{}, 1..n, {1}, {n}, {i \in 1..n : i % 2 = 1}}}

\* the ways the loop of lines 311-334 can go over these entries
LongPasses(entries) ==
    {[history |-> Backfill(history, entries, tw, 1),
      tw_price |-> [i \in 1..Len(entries) |->
                      fetch_tw_price_by_date(entries[i].date, tw[i])]] :
        tw \in LongTwAnswers(entries)}

\* lines 389-422 with fetch_historical_data, lines 292-343, on a long feed
GetHistoricalDataLongFeed ==
    /\ \A r \in Req : pc[r] = "idle"
    /\ hrequests_today < MaxHistRequests
    /\ IF last_fetch_date = today
       THEN /\ hret' = get_historical_data(history)
            /\ UNCHANGED <<history, last_fetch_date, hrequests_today, backfilled_today,
                           last_pass>>
       ELSE \E res \in LongFeedResponses :
              /\ hrequests_today' = hrequests_today + 1
              /\ \E pass \in LongPasses(First30(res.series)) :
                     LET h == pass.history
                     IN  /\ history' = h
                         /\ last_pass' =
                              [feed |-> res.series,
                               entries |-> First30(res.series),
                               tw_price |-> pass.tw_price,
                               before |-> history]
                         /\ last_fetch_date' = today
                         /\ backfilled_today' = TRUE
                         /\ hret' = get_historical_data(h)
    /\ UNCHANGED <<now, priceVars, resp>>

NextLongFeed ==
    \/ GetHistoricalDataLongFeed
    \/ DaysPass

SpecLongFeed == InitHist /\ [][NextLongFeed]_vars

----------------------------------------------------------------------------
(* The handlers as the event loop runs them, one whole handler at a time,   *)
(* on files whose writes may fail                                           *)

\* The price handlers read and write CACHE_FILE and API_USAGE_FILE only, the
\* historical handler HISTORY_CACHE_FILE only: interleaving the two adds no
\* behaviour of either. One behaviour here calls the price handlers, or the
\* historical handler, or the price handlers until the quota of the date is
\* used up with a snapshot of the date on file and the historical handler
\* from then on.
PriceFilesUntouched == cache = EmptyDict /\ usage = EmptyDict

HistoryFileUntouched == history = EmptyDict /\ last_fetch_date = None

stepVars == <<pc, loc, ret, first_fresh, requests_today, records_today,
              saves_today, hret, hrequests_today, backfilled_today, last_pass>>

\* open(file, 'w') and json.dump: the file is written, open() raised and the
\* file is as before, or json.dump raised on the truncated file
WriteOutcomes == {"ok", "unchanged", "truncated"}

\* what load_cache / load_history_cache / load_api_usage read after the write:
\* a file that does not parse reads as {} (lines 70-71, 88-89, 111-112)
Saved(old, new, w) ==
    CASE w = "ok" -> new
      [] w = "unchanged" -> old
      [] w = "truncated" -> EmptyDict

\* a variant of save_* without its try/except
SaveRaisesUnguarded(w) == w # "ok"

\* lines 76-80, 94-98, 117-121: save_* catches the exception of a failed write
SaveRaises(w) == FALSE

\* lines 154-176, record_api_call included; an exception of record_api_call
\* is caught at line 174
fetch_adr_price(res, w) ==
    IF ~check_api_limit
    THEN [price |-> None, usage |-> usage, requested |-> {}]
    ELSE IF ~ReachesRecord(res)
    THEN [price |-> None, usage |-> usage, requested |-> {"adr"}]
    ELSE [price |-> IF SaveRaises(w) THEN None ELSE ParseAdr(res),
          usage |-> Saved(usage, record_api_call(usage, "ALPHA_VANTAGE_ADR"), w),
          requested |-> {"adr"}]

\* lines 208-262 on the results of the three fetchers; adr is the result of
\* fetch_adr_price with the ledger it left, w the outcome of save_cache
get_cached_prices(adr, tw_price, usd_twd, w) ==
    IF is_cache_valid(cache)
    THEN [value |-> ValidResult(cache), cache |-> cache, usage |-> usage,
          requested |-> {}, fetched |-> <<>>]
    ELSE IF Exception \in {adr.price, tw_price, usd_twd}
    THEN [value |-> Raised, cache |-> cache, usage |-> adr.usage,
          requested |-> adr.requested \cup {"tw", "fx"},
          fetched |-> <<adr.price, tw_price, usd_twd>>]
    ELSE IF adr.price # None
    THEN [value |-> IF SaveRaises(w) THEN Raised
                    ELSE FreshResult(adr.price, tw_price, usd_twd),
          cache |-> Saved(cache, FreshCache(adr.price, tw_price, usd_twd), w),
          usage |-> adr.usage,
          requested |-> adr.requested \cup {"tw", "fx"},
          fetched |-> <<adr.price, tw_price, usd_twd>>]
    ELSE [value |-> LimitedResult(cache, tw_price, usd_twd), cache |-> cache,
          usage |-> adr.usage,
          requested |-> adr.requested \cup {"tw", "fx"},
          fetched |-> <<adr.price, tw_price, usd_twd>>]

\* getStockInfo.jsp may also quote a price of zero
TwResponsesApi == TwResponses \cup {[kind |-> "msg", z |-> "0", p |-> "None"]}

\* what the free fetchers can return, over every answer of their upstreams
TwResults == {fetch_tw_price(res) : res \in TwResponsesApi}
FxResults == {fetch_usd_twd(res) : res \in FxResponses}

\* one run of get_cached_prices: the GLOBAL_QUOTE answer, the results of the
\* free fetchers, the outcomes of save_api_usage and save_cache
Run(res, tw_price, usd_twd, wu, wc) ==
    get_cached_prices(fetch_adr_price(res, wu), tw_price, usd_twd, wc)

\* the ways a call of get_cached_prices can go from this state, each with the
\* way it would have gone had both writes succeeded; a valid cache asks
\* nothing of the upstreams
PriceRuns ==
    IF is_cache_valid(cache)
    THEN {[run |-> Run(InitLoc.res, None, None, "ok", "ok"),
           unfailed |-> Run(InitLoc.res, None, None, "ok", "ok")]}
    ELSE {[run |-> Run(res, tw_price, usd_twd, wu, wc),
           unfailed |-> Run(res, tw_price, usd_twd, "ok", "ok")] :
             res \in AdrResponses, tw_price \in TwResults, usd_twd \in FxResults,
             wu \in WriteOutcomes, wc \in WriteOutcomes}

\* a variant that multiplies by the share ratio
converted_price_multiplied(adr_price, usd_twd) == (adr_price * 5) * usd_twd

\* line 365
converted_price(adr_price, usd_twd) == (adr_price \div 5) * usd_twd

\* a variant that tests 'is not None' and so divides by a price of zero
compared_data_not_none(converted, tw_price) ==
    IF tw_price = None THEN EmptyDict
    ELSE IF tw_price = 0 THEN Raised
    ELSE [tw_reference_price |-> tw_price,
          difference |-> converted - tw_price,
          difference_percent |-> ((converted - tw_price) * 100) \div tw_price]

\* lines 370-379: compared_data stays None (here the empty dict) unless
\* current_prices['tw_price'] is truthy
compared_data(converted, tw_price) ==
    IF tw_price # None /\ tw_price # 0
    THEN [tw_reference_price |-> tw_price,
          difference |-> converted - tw_price,
          difference_percent |-> ((converted - tw_price) * 100) \div tw_price]
    ELSE EmptyDict

\* lines 361-387 on the value get_cached_prices returned; the text of
\* formula_explanation is left out
convert_adr_to_tw(request, prices) ==
    IF prices = Raised THEN [status_code |-> 500]
    ELSE LET converted == converted_price(request.adr_price, request.usd_twd)
             compared == compared_data(converted, prices["tw_price"])
         IN  IF compared = Raised THEN [status_code |-> 500]
             ELSE [status_code |-> 200, converted_price |-> converted,
                   compared_to_tw_price |-> compared]

\* the bodies of POST /api/convert
ConversionRequests == {[adr_price |-> p, usd_twd |-> 32] : p \in {100, 155}}

\* a variant that calls every cache file valid
health_check_nonempty ==
    [status_code |-> 200, timestamp |-> now,
     calls_today |-> calls_today(usage), limit |-> MAX_API_CALLS_PER_DAY,
     remaining |-> MAX_API_CALLS_PER_DAY - calls_today(usage),
     valid |-> cache # EmptyDict,
     last_updated |-> Get(cache, "last_updated"), cache_date |-> Get(cache, "date")]

\* lines 424-453: the fields of api_usage and cache_status
health_check ==
    [status_code |-> 200, timestamp |-> now,
     calls_today |-> calls_today(usage), limit |-> MAX_API_CALLS_PER_DAY,
     remaining |-> MAX_API_CALLS_PER_DAY - calls_today(usage),
     valid |-> is_cache_valid(cache),
     last_updated |-> Get(cache, "last_updated"), cache_date |-> Get(cache, "date")]

\* GET /api/prices, lines 352-359
GetCurrentPrices ==
    /\ resp = NoCall
    /\ HistoryFileUntouched
    /\ \E call \in PriceRuns :
         LET run == call.run
             unfailed == call.unfailed
         IN  /\ cache' = run.cache
             /\ usage' = run.usage
             /\ resp' = [handler |-> "prices",
                         status_code |-> IF run.value = Raised THEN 500 ELSE 200,
                         body |-> get_current_prices(run.value),
                         unfailed |-> get_current_prices(unfailed.value),
                         requested |-> run.requested,
                         fetched |-> run.fetched]
    /\ UNCHANGED <<now, history, last_fetch_date, stepVars>>

\* POST /api/convert, lines 361-387
ConvertAdrToTw ==
    /\ resp = NoCall
    /\ HistoryFileUntouched
    /\ \E request \in ConversionRequests, call \in PriceRuns :
         LET run == call.run
             unfailed == call.unfailed
             response == convert_adr_to_tw(request, run.value)
         IN  /\ cache' = run.cache
             /\ usage' = run.usage
             /\ resp' = [handler |-> "convert",
                         status_code |-> response.status_code,
                         body |-> response,
                         unfailed |-> convert_adr_to_tw(request, unfailed.value),
                         requested |-> run.requested,
                         fetched |-> run.fetched,
                         request |-> request,
                         prices |-> run.value]
    /\ UNCHANGED <<now, history, last_fetch_date, stepVars>>

\* GET /api/health, lines 424-453
HealthCheck ==
    /\ resp = NoCall
    /\ HistoryFileUntouched
    /\ resp' = [handler |-> "health", status_code |-> 200, body |-> health_check,
                unfailed |-> health_check, requested |-> {}, fetched |-> <<>>]
    /\ UNCHANGED <<now, cache, usage, history, last_fetch_date, stepVars>>

\* a variant that asks the feed only while the daily quota lasts
fetch_historical_data_gated(res, tw, w) ==
    IF last_fetch_date = today \/ ~check_api_limit
    THEN [history |-> history, store |-> history, sentinel |-> last_fetch_date,
          requested |-> {}, fetched |-> <<>>]
    ELSE IF res.kind # "series"
    THEN [history |-> history, store |-> history, sentinel |-> last_fetch_date,
          requested |-> {"feed"}, fetched |-> <<>>]
    ELSE LET entries == First30(res.series)
             h == Backfill(history, entries, tw, 1)
         IN  [history |-> h, store |-> Saved(history, h, w),
              sentinel |-> CASE w = "ok" -> today
                             [] w = "unchanged" -> last_fetch_date
                             [] w = "truncated" -> None,
              requested |-> {"feed"} \cup {"tw" : i \in 1..Len(entries)},
              fetched |-> [i \in 1..Len(entries) |->
                             fetch_tw_price_by_date(entries[i].date, tw[i])]]

\* lines 292-343: the dict fetch_historical_data returns, the file it leaves
\* (date-keyed records and last_fetch_date) and what it asked of the upstreams;
\* res is the TIME_SERIES_DAILY answer, tw the STOCK_DAY answers, w the
\* outcome of save_history_cache
fetch_historical_data(res, tw, w) ==
    IF last_fetch_date = today
    THEN [history |-> history, store |-> history, sentinel |-> last_fetch_date,
          requested |-> {}, fetched |-> <<>>]
    ELSE IF res.kind # "series"
    THEN [history |-> history, store |-> history, sentinel |-> last_fetch_date,
          requested |-> {"feed"}, fetched |-> <<>>]
    ELSE LET entries == First30(res.series)
             h == Backfill(history, entries, tw, 1)
         IN  [history |-> h, store |-> Saved(history, h, w),
              sentinel |-> CASE w = "ok" -> today
                             [] w = "unchanged" -> last_fetch_date
                             [] w = "truncated" -> None,
              requested |-> {"feed"} \cup {"tw" : i \in 1..Len(entries)},
              fetched |-> [i \in 1..Len(entries) |->
                             fetch_tw_price_by_date(entries[i].date, tw[i])]]

\* the ways a call of fetch_historical_data can go from this state, each with
\* the way it would have gone had the write succeeded
HistRuns ==
    IF last_fetch_date = today
    THEN {[run |-> fetch_historical_data(FeedEntries(0, 0, "150"), <<>>, "ok"),
           unfailed |-> fetch_historical_data(FeedEntries(0, 0, "150"), <<>>, "ok")]}
    ELSE UNION {{[run |-> fetch_historical_data(res, tw, w),
                  unfailed |-> fetch_historical_data(res, tw, "ok")] :
                    tw \in TwAnswers(First30(res.series), 1), w \in WriteOutcomes} :
                res \in FeedResponses}

\* GET /api/historical, lines 389-422
GetHistoricalDataApi ==
    /\ resp = NoCall
    /\ (PriceFilesUntouched \/ (~check_api_limit /\ is_cache_valid(cache)))
    /\ \E call \in HistRuns :
         /\ history' = call.run.store
         /\ last_fetch_date' = call.run.sentinel
         /\ resp' = [handler |-> "historical",
                     status_code |-> get_historical_data(call.run.history).status_code,
                     body |-> get_historical_data(call.run.history),
                     unfailed |-> get_historical_data(call.unfailed.history),
                     requested |-> call.run.requested,
                     fetched |-> call.run.fetched]
    /\ UNCHANGED <<now, cache, usage, stepVars>>

\* the response leaves for the client; the loop is free for the next request
SendResponse ==
    /\ resp # NoCall
    /\ resp' = NoCall
    /\ UNCHANGED <<now, cache, usage, history, last_fetch_date, stepVars>>

\* midnight passes between two requests
ApiTick ==
    /\ resp = NoCall
    /\ today < HistStartDay + MaxApiDays
    /\ now' = (today + 1) * TicksPerDay
    /\ UNCHANGED <<cache, usage, history, last_fetch_date, stepVars, resp>>

NextApi ==
    \/ GetCurrentPrices
    \/ ConvertAdrToTw
    \/ HealthCheck
    \/ GetHistoricalDataApi
    \/ SendResponse
    \/ ApiTick

SpecApi == InitHist /\ [][NextApi]_vars

----------------------------------------------------------------------------

Init ==
    /\ now = 0
    /\ cache = EmptyDict
    /\ usage = EmptyDict
    /\ pc = [r \in Req |-> "idle"]
    /\ loc = [r \in Req |-> InitLoc]
    /\ ret = NotReturned
    /\ first_fresh = EmptyDict
    /\ requests_today = 0
    /\ records_today = 0
    /\ saves_today = 0
    /\ history = EmptyDict
    /\ last_fetch_date = None
    /\ hret = NoResponse
    /\ hrequests_today = 0
    /\ backfilled_today = FALSE
    /\ last_pass = NoPass
    /\ resp = NoCall

Next ==
    \/ \E r \in Req : GetCachedPrices_Load(r)
    \/ \E r \in Req : FetchAdr_Check(r)
    \/ \E r \in Req : FetchAdr_Request(r)
    \/ \E r \in Req : FetchAdr_RecordLoad(r)
    \/ \E r \in Req : FetchAdr_RecordSave(r)
    \/ \E r \in Req : FetchTw(r)
    \/ \E r \in Req : FetchUsdTwd(r)
    \/ \E r \in Req : GetCachedPrices_Finish(r)
    \/ Tick

Spec == Init /\ [][Next]_vars

----------------------------------------------------------------------------
(* The quota ledger by itself: check_api_limit and record_api_call as the   *)
(* two operations of the ledger, called in any order                        *)

\* the api_name a caller passes; fetch_adr_price passes the first (line 167)
ApiNames == {"ALPHA_VANTAGE_ADR", "ALPHA_VANTAGE_DAILY"}

\* lines 123-131
CheckApiLimit ==
    /\ resp = NoCall
    /\ resp' = [handler |-> "check_api_limit", body |-> check_api_limit,
                before |-> usage]
    /\ UNCHANGED <<now, cache, usage, history, last_fetch_date, stepVars>>

\* lines 133-149: load_api_usage, the update, save_api_usage, the return
RecordApiCall ==
    /\ resp = NoCall
    /\ calls_today(usage) < MaxLedgerCalls
    /\ \E api_name \in ApiNames :
         LET u == record_api_call(usage, api_name)
         IN  /\ usage' = u
             /\ resp' = [handler |-> "record_api_call",
                         body |-> Get(u, today).calls,
                         before |-> usage]
    /\ UNCHANGED <<now, cache, history, last_fetch_date, stepVars>>

NextLedger ==
    \/ CheckApiLimit
    \/ RecordApiCall
    \/ SendResponse
    \/ Tick

SpecLedger == Init /\ [][NextLedger]_vars

----------------------------------------------------------------------------
(* The free fetchers by themselves, each called on any answer of its        *)
(* upstream; resp keeps the last answer and result of each                  *)

\* the fetcher was not called yet
NotCalled == [res |-> [kind |-> "none"], value |-> None]

\* lines 178-193 on one answer of getStockInfo.jsp
CallFetchTwPrice ==
    /\ \E res \in TwResponses :
         resp' = [handler |-> "fetchers",
                  tw |-> [res |-> res, value |-> fetch_tw_price(res)],
                  fx |-> IF resp = NoCall THEN NotCalled ELSE resp.fx]
    /\ UNCHANGED <<now, cache, usage, history, last_fetch_date, stepVars>>

\* lines 195-206 on one answer of the rate CSV
CallFetchUsdTwd ==
    /\ \E res \in FxResponses :
         resp' = [handler |-> "fetchers",
                  tw |-> IF resp = NoCall THEN NotCalled ELSE resp.tw,
                  fx |-> [res |-> res, value |-> fetch_usd_twd(res)]]
    /\ UNCHANGED <<now, cache, usage, history, last_fetch_date, stepVars>>

NextFetch ==
    \/ CallFetchTwPrice
    \/ CallFetchUsdTwd

SpecFetch == Init /\ [][NextFetch]_vars

----------------------------------------------------------------------------
(* The frontend's call_api (src/frontend/streamlit_app.py), on every answer *)
(* of the backends it may contact                                           *)

\* lines 23-26
FALLBACK_URLS == <<"https://tsmc-adr-converter.onrender.com", "http://localhost:8000">>

\* lines 15-20: the configured base URL is the first fallback unless the
\* secrets or the environment name another
ApiBaseUrls ==
    {"https://tsmc-adr-converter.onrender.com", "http://localhost:8000",
     "https://api.example.com"}

\* line 33
urls_to_try(API_BASE_URL) ==
    <<API_BASE_URL>> \o SelectSeq(FALLBACK_URLS, LAMBDA u : u # API_BASE_URL)

\* what requests.get / requests.post meets at one URL: a RequestException,
\* a status other than 200, or status 200 with a body that is JSON or is not
UrlAnswers == {"RequestException", "500", "200 json", "200 not json"}

\* response.json() on a body that is not JSON raises JSONDecodeError: a
\* RequestException in requests 2.27 and later, a plain ValueError before
JsonErrors == {"RequestException", "ValueError"}

\* response.json() of a backend's answer: the body names its backend
Json(base_url) == [backend |-> base_url]

\* lines 35-56 from the i-th URL on; answer[u] is what the request to u
\* meets, contacted the URLs requested so far
RECURSIVE call_api_from(_, _, _, _, _)
call_api_from(urls, answer, json_error, i, contacted) ==
    LET base_url == urls[i]
        asked == Append(contacted, base_url)
        caught == \/ answer[base_url] = "RequestException"
                  \/ (answer[base_url] = "200 not json"
                        /\ json_error = "RequestException")
    IN  IF answer[base_url] = "200 json"
        THEN [value |-> Json(base_url), raised |-> FALSE, contacted |-> asked]
        ELSE IF answer[base_url] = "200 not json" /\ json_error = "ValueError"
        THEN [value |-> EmptyDict, raised |-> TRUE, contacted |-> asked]
        ELSE IF i < Len(urls)
        THEN call_api_from(urls, answer, json_error, i + 1, asked)
        ELSE [value |-> EmptyDict, raised |-> FALSE, contacted |-> asked]

\* lines 31-56; the value None is the empty dict here
call_api(API_BASE_URL, answer, json_error) ==
    call_api_from(urls_to_try(API_BASE_URL), answer, json_error, 1, <<>>)

\* one call of call_api, GET or POST
CallApi ==
    /\ \E API_BASE_URL \in ApiBaseUrls, method \in {"GET", "POST"},
          json_error \in JsonErrors :
         \E answer \in [{urls_to_try(API_BASE_URL)[i] :
                            i \in 1..Len(urls_to_try(API_BASE_URL))} -> UrlAnswers] :
            LET call == call_api(API_BASE_URL, answer, json_error)
            IN  resp' = [handler |-> "call_api", method |-> method,
                         base |-> API_BASE_URL, answer |-> answer,
                         body |-> call.value, raised |-> call.raised,
                         contacted |-> call.contacted]
    /\ UNCHANGED <<now, cache, usage, history, last_fetch_date, stepVars>>

NextCallApi == CallApi

SpecCallApi == Init /\ [][NextCallApi]_vars

----------------------------------------------------------------------------
(* Properties of the snapshot refresh *)

\* a step in which request r leaves get_cached_prices through lines 229-262
Finishes(r) == pc[r] = "finish" /\ pc'[r] = "idle"

\* C1: on one calendar date the GLOBAL_QUOTE endpoint is requested at most
\* MAX_API_CALLS_PER_DAY times, whatever the outcome of each request
C1_QuotaInvariant == requests_today <= MAX_API_CALLS_PER_DAY

\* between passing check_api_limit and the end of record_api_call
PassedCheck(r) == pc[r] \in {"request", "record", "save"}

\* C2: no two refreshes are both past the quota check with their call not yet
\* recorded, the ledger count and the number of requests of a date stay within
\* MAX_API_CALLS_PER_DAY, and every record_api_call is in the ledger once no
\* refresh is in flight
C2_CheckRecordAtomic ==
    /\ \A r, q \in Req : (r # q) => ~(PassedCheck(r) /\ PassedCheck(q))
    /\ calls_today(usage) <= MAX_API_CALLS_PER_DAY
    /\ requests_today <= MAX_API_CALLS_PER_DAY
    /\ (\A r \in Req : pc[r] = "idle") => calls_today(usage) = records_today

\* C3: once a call returned a fresh snapshot on a date, every later return on
\* that date is that same dict, data_source included, and the call neither
\* invoked a fetcher nor touched the ledger
C3_Idempotence ==
    [][(first_fresh # EmptyDict /\ first_fresh' = first_fresh /\ ret' # ret) =>
          /\ ret'.value = first_fresh
          /\ ret'.fetched = {}
          /\ usage' = usage
          /\ requests_today' = requests_today]_vars

\* C4: a refresh whose quota-limited fetch gave no value returns the persisted
\* receipt price with the local price and the rate it fetched itself, marked
\* cached_due_to_api_limit, and leaves the persisted snapshot as it was
C4_LimitedKeepsStore ==
    [][\A r \in Req : (Finishes(r) /\ loc[r].adr_price = None) =>
          /\ ret'.value # Raised
          /\ ret'.value["adr_price"] = Get(cache, "adr_price")
          /\ ret'.value["tw_price"] = loc[r].tw_price
          /\ ret'.value["usd_twd"] = loc[r].usd_twd
          /\ Source(ret'.value) = "cached_due_to_api_limit"
          /\ cache' = cache]_vars

\* the spec's scenario: the quota is used up, the stale snapshot holds a
\* receipt price, both free fetches succeed
C4_Witness ==
    /\ Source(ret.value) = "cached_due_to_api_limit"
    /\ ret.value["adr_price"] = 150
    /\ ret.value["tw_price"] = 800
    /\ ret.value["usd_twd"] = 32
    /\ Get(cache, "tw_price") = None
    /\ calls_today(usage) = MAX_API_CALLS_PER_DAY

\* C5: a refresh whose quota-limited fetch gave a receipt price returns and
\* persists today's date, that price, fresh_api_call, and the local price and
\* the rate each as its own fetch returned it (None when it failed)
C5_FreshMerge ==
    [][\A r \in Req : (Finishes(r) /\ loc[r].adr_price # None) =>
          /\ ret'.value # Raised
          /\ ret'.value["cache_date"] = today
          /\ ret'.value["adr_price"] = loc[r].adr_price
          /\ ret'.value["tw_price"] = loc[r].tw_price
          /\ ret'.value["usd_twd"] = loc[r].usd_twd
          /\ Source(ret'.value) = "fresh_api_call"
          /\ DOMAIN cache' = {"date", "adr_price", "tw_price", "usd_twd",
                              "last_updated", "data_source"}
          /\ cache'["date"] = ret'.value["cache_date"]
          /\ \A k \in {"adr_price", "tw_price", "usd_twd", "last_updated",
                       "data_source"} : cache'[k] = ret'.value[k]]_vars

\* the spec's scenario: the local quote failed, the rate and the receipt
\* price were obtained
C5_Witness ==
    /\ Source(ret.value) = "fresh_api_call"
    /\ ret.value["adr_price"] = 150
    /\ ret.value["tw_price"] = None
    /\ ret.value["usd_twd"] = 32
    /\ cache["tw_price"] = None
    /\ cache["usd_twd"] = 32

C7_AlwaysSnapshot ==
    [][/\ (ret' # ret /\ now' = now) =>
            ret'.value # Raised
       /\ \A r \in Req :
            (Finishes(r) /\ loc[r].adr_price = None
              /\ Get(cache, "adr_price") = None) =>
                /\ ret'.value # Raised
                /\ ret'.value["adr_price"] = None
                /\ ret'.value["tw_price"] = loc[r].tw_price
                /\ ret'.value["usd_twd"] = loc[r].usd_twd]_vars

\* nothing persisted, the quota-limited fetch failed, the local quote came
C7_Witness ==
    /\ cache = EmptyDict
    /\ Source(ret.value) = "cached_due_to_api_limit"
    /\ ret.value["adr_price"] = None
    /\ ret.value["tw_price"] = 800

\* C8: the snapshot of a date is persisted by at most one refresh, and every
\* fresh or cached-valid return of that date shows the prices, the rate and
\* the last_updated of that one snapshot
C8_OneCanonicalSnapshot ==
    /\ saves_today <= 1
    /\ (/\ first_fresh # EmptyDict
        /\ ret.value # EmptyDict
        /\ Source(ret.value) # "cached_due_to_api_limit") =>
           \A k \in {"adr_price", "tw_price", "usd_twd", "last_updated"} :
              ret.value[k] = first_fresh[k]

\* a later caller was served the snapshot another call persisted earlier
C8_Witness ==
    /\ first_fresh # EmptyDict
    /\ ret.value # EmptyDict
    /\ Source(ret.value) = "absent"
    /\ ret.value["last_updated"] < now

----------------------------------------------------------------------------
(* Properties of the historical backfill *)

\* C9: after a backfill pass the store holds no record older than
\* today - RETENTION_DAYS and last_fetch_date is present and equals today
C9_Retention ==
    backfilled_today =>
        /\ last_fetch_date # None
        /\ last_fetch_date = today
        /\ \A d \in DOMAIN history : d >= today - RETENTION_DAYS

\* C10: on one date the TIME_SERIES_DAILY endpoint is requested at most once,
\* and after a backfill pass of that date last_fetch_date equals today
C10_OneBackfillPerDay ==
    /\ hrequests_today <= 1
    /\ backfilled_today => last_fetch_date = today

\* the feed entries of the last pass for which fetch_tw_price_by_date was
\* called and returned None
Missing ==
    {i \in 1..Len(last_pass.entries) :
        IsNumeric(last_pass.entries[i].close) /\ last_pass.tw_price[i] = None}

\* the dates the entries of the returned series carry
SeriesDates == {hret.data[j].date : j \in 1..Len(hret.data)}

\* C11 as stated: after a backfill pass that found no local close for a feed
\* date d, the store has no record for d and the returned series no entry for
\* d, whatever the store held before the pass
C11_SkipOnMissing ==
    backfilled_today =>
        \A i \in Missing :
            /\ last_pass.entries[i].date \notin DOMAIN history
            /\ last_pass.entries[i].date \notin SeriesDates

\* C11 as amended: the pass writes nothing for d; the store holds for d what
\* it held before the pass (nothing if it held nothing), and the series has an
\* entry for d only when the store held a record before
C11_SkipKeepsStore ==
    backfilled_today =>
        \A i \in Missing :
            LET d == last_pass.entries[i].date
            IN  /\ (d \in DOMAIN history) <=> (d \in DOMAIN last_pass.before)
                /\ (d \in DOMAIN history) => history[d] = last_pass.before[d]
                /\ (d \in SeriesDates) => (d \in DOMAIN last_pass.before)
                /\ (d \notin DOMAIN last_pass.before) =>
                      (d \notin DOMAIN history /\ d \notin SeriesDates)

\* a pass stored one feed date and skipped another that had no local close
C11_Witness ==
    /\ backfilled_today
    /\ \E i \in Missing :
          /\ last_pass.entries[i].date \notin DOMAIN history
          /\ last_pass.entries[i].date = today - 1
    /\ \E d \in DOMAIN history : d \notin DOMAIN last_pass.before
    /\ Len(hret.data) > 0

\* a record with the three base fields present and not None
Complete(record) ==
    /\ {"adr_price", "tw_price", "usd_twd"} \subseteq DOMAIN record
    /\ record.adr_price # None
    /\ record.tw_price # None
    /\ record.usd_twd # None

\* the feed entries of the last pass for which both the receipt close and
\* the local close were obtained
Obtained ==
    {i \in 1..Len(last_pass.entries) :
        IsNumeric(last_pass.entries[i].close) /\ last_pass.tw_price[i] # None}

\* C12: every record of the historical store has the three base fields
\* present and not None; a record a pass wrote or changed is the record of a
\* feed date whose receipt close and local close were both obtained, and a
\* feed date for which one of them was not obtained gets no record
C12_StoreComplete ==
    /\ \A d \in DOMAIN history : Complete(history[d])
    /\ backfilled_today =>
          /\ \A d \in DOMAIN history :
                (d \notin DOMAIN last_pass.before
                  \/ history[d] # Get(last_pass.before, d)) =>
                    \E i \in Obtained :
                       /\ last_pass.entries[i].date = d
                       /\ history[d].adr_price = Float(last_pass.entries[i].close)
                       /\ history[d].tw_price = last_pass.tw_price[i]
          /\ \A i \in 1..Len(last_pass.entries) :
                (i \notin Obtained
                  /\ last_pass.entries[i].date \notin DOMAIN last_pass.before) =>
                    last_pass.entries[i].date \notin DOMAIN history

\* a pass stored the complete record of one feed date and none for the feed
\* date whose receipt close did not parse
C12_Witness ==
    /\ backfilled_today
    /\ \E i \in 1..Len(last_pass.entries) :
          /\ ~IsNumeric(last_pass.entries[i].close)
          /\ last_pass.tw_price[i] # None
          /\ last_pass.entries[i].date \notin DOMAIN history
    /\ \E i \in Obtained : last_pass.entries[i].date \in DOMAIN history

\* C13: the returned series has at most 30 entries, strictly increasing by
\* date, all within today-30 .. today-1; a date of that range has an entry
\* exactly when the store holds a complete record for it, and the entry
\* carries that record's base fields (entries come from date-keyed records
\* only, never from last_fetch_date)
C13_SeriesWindow ==
    (hret # NoResponse) =>
        /\ hret.status_code = 200
        /\ Len(hret.data) <= 30
        /\ \A j, k \in 1..Len(hret.data) :
              (j < k) => hret.data[j].date < hret.data[k].date
        /\ \A j \in 1..Len(hret.data) :
              /\ hret.data[j].date >= today - 30
              /\ hret.data[j].date <= today - 1
              /\ hret.data[j].date \in DOMAIN history
              /\ hret.data[j].adr_price_usd = history[hret.data[j].date].adr_price
              /\ hret.data[j].tw_price = history[hret.data[j].date].tw_price
              /\ hret.data[j].usd_twd = history[hret.data[j].date].usd_twd
        /\ \A d \in (today - 30)..(today - 1) :
              (d \in SeriesDates) <=>
                 (d \in DOMAIN history /\ Complete(history[d]))

\* the store holds a record for today, and the series shows two earlier
\* dates but not today
C13_Witness ==
    /\ hret.status_code = 200
    /\ Len(hret.data) >= 2
    /\ today \in DOMAIN history
    /\ today \notin SeriesDates

----------------------------------------------------------------------------
(* Properties of the handlers *)

\* C14: the converted price is adr_price / 5 * usd_twd (100 and 32 give 640),
\* and every entry of the historical series has adr_in_twd = adr_price / 5 *
\* usd_twd, difference = adr_in_twd - tw_price and difference_percent =
\* difference / tw_price * 100
C14_ConversionFormula ==
    /\ (resp.handler = "convert" /\ resp.status_code = 200) =>
          /\ resp.body.converted_price * 5
                = resp.request.adr_price * resp.request.usd_twd
          /\ (resp.request.adr_price = 100 /\ resp.request.usd_twd = 32) =>
                resp.body.converted_price = 640
    /\ (resp.handler = "historical" /\ resp.status_code = 200) =>
          \A j \in 1..Len(resp.body.data) :
             LET entry == resp.body.data[j]
             IN  /\ entry.adr_in_twd * 5 = entry.adr_price_usd * entry.usd_twd
                 /\ entry.difference = entry.adr_in_twd - entry.tw_price
                 /\ entry.difference_percent * entry.tw_price
                       = entry.difference * 100

\* the spec's scenario: convert(100, 32) answered 640
C14_Witness ==
    /\ resp.handler = "convert"
    /\ resp.request.adr_price = 100
    /\ resp.body.converted_price = 640

\* C15: a convert call sends no request to an upstream, leaves the quota
\* ledger, the snapshot and the historical store as they were, and answers
\* with a result
C15_ConvertPure ==
    [][(resp.handler = "none" /\ resp'.handler = "convert") =>
          /\ resp'.requested = {}
          /\ usage' = usage
          /\ cache' = cache
          /\ history' = history
          /\ last_fetch_date' = last_fetch_date
          /\ resp'.status_code = 200]_vars

\* C16: the convert result carries the comparison exactly when the reference
\* local price is there and not zero, with difference = converted price -
\* reference and difference_percent = difference / reference * 100; without
\* it the call still succeeds
C16_ComparisonWhenReference ==
    (resp.handler = "convert") =>
        /\ resp.status_code = 200
        /\ LET ref == resp.prices["tw_price"]
               compared == resp.body.compared_to_tw_price
           IN  /\ (compared # EmptyDict) <=> (ref # None /\ ref # 0)
               /\ (compared # EmptyDict) =>
                     /\ compared.tw_reference_price = ref
                     /\ compared.difference = resp.body.converted_price - ref
                     /\ compared.difference_percent * ref
                           = compared.difference * 100

\* the reference local price is zero and the answer has no comparison
C16_Witness ==
    /\ resp.handler = "convert"
    /\ resp.status_code = 200
    /\ resp.prices["tw_price"] = 0
    /\ resp.body.compared_to_tw_price = EmptyDict

\* C17: health reports the ledger's count of today (0 without a record of
\* today), the limit, remaining = limit - count, valid exactly when the
\* snapshot's date is today, the snapshot's date and last_updated; it sends
\* no request and changes none of the three files
C17_Health ==
    [][(resp.handler = "none" /\ resp'.handler = "health") =>
          /\ resp'.body.calls_today =
                (IF today \in DOMAIN usage THEN usage[today].calls ELSE 0)
          /\ resp'.body.limit = MAX_API_CALLS_PER_DAY
          /\ resp'.body.remaining = resp'.body.limit - resp'.body.calls_today
          /\ resp'.body.valid <=> (Get(cache, "date") = today)
          /\ resp'.body.cache_date = Get(cache, "date")
          /\ resp'.body.last_updated = Get(cache, "last_updated")
          /\ resp'.requested = {}
          /\ usage' = usage
          /\ cache' = cache
          /\ history' = history
          /\ last_fetch_date' = last_fetch_date]_vars

\* yesterday's snapshot is in the file and one call is on today's ledger
C17_Witness ==
    /\ resp.handler = "health"
    /\ resp.body.calls_today = 1
    /\ resp.body.remaining = 1
    /\ ~resp.body.valid
    /\ resp.body.cache_date = today - 1

\* C18: whatever the outcome of the writes to the three files, the call
\* raises no error and answers what it would have answered had the writes
\* succeeded
C18_WriteFailureSwallowed ==
    (resp # NoCall) =>
        /\ resp.status_code = 200
        /\ resp.body = resp.unfailed

\* a fresh snapshot was answered although the snapshot file did not take it
C18_Witness ==
    /\ resp.handler = "prices"
    /\ resp.status_code = 200
    /\ resp.body["cache_date"] = today
    /\ resp.body["adr_price"] = 150
    /\ ~is_cache_valid(cache)

\* C19: every fetcher returns a number or None, whatever its upstream
\* answered and whatever the ledger held, and no handler fails because of
\* a fetcher
C19_FetchersTotal ==
    (resp # NoCall) =>
        /\ resp.status_code = 200
        /\ \A i \in 1..Len(resp.fetched) :
              /\ resp.fetched[i] # Exception
              /\ (resp.fetched[i] = None \/ resp.fetched[i] >= 0)

\* all three upstreams of one refresh failed and the refresh answered
C19_Witness ==
    /\ resp.handler = "prices"
    /\ resp.status_code = 200
    /\ resp.requested = {"adr", "tw", "fx"}
    /\ resp.fetched = <<None, None, None>>

\* C20: every GLOBAL_QUOTE request is followed by one record_api_call: once
\* no refresh is in flight, the ledger count of today equals the number of
\* requests sent today
C20_RecordEveryAttempt ==
    (\A r \in Req : pc[r] = "idle") =>
        /\ records_today = requests_today
        /\ calls_today(usage) = requests_today

----------------------------------------------------------------------------
(* Properties of the quota ledger *)

\* the count the ledger holds for a date, 0 without a record
Calls(u, d) == IF d \in DOMAIN u THEN u[d].calls ELSE 0

\* the log the ledger holds for a date, empty without a record
Log(u, d) == IF d \in DOMAIN u THEN u[d].log ELSE <<>>

\* C21: check_api_limit answers true exactly when the count of today is below
\* MAX_API_CALLS_PER_DAY and changes nothing; record_api_call, at the limit
\* too, leaves today's record with the count one higher and the log one entry
\* longer (from 0 and empty when there was no record), returns the new count
\* and leaves the records of the other dates as they were; for every date the
\* count is the length of the log
C21_LedgerOperations ==
    /\ [](\A d \in DOMAIN usage : usage[d].calls = Len(usage[d].log))
    /\ [][/\ (resp.handler = "none" /\ resp'.handler = "check_api_limit") =>
               /\ resp'.body <=> (Calls(usage, today) < MAX_API_CALLS_PER_DAY)
               /\ usage' = usage
          /\ (resp.handler = "none" /\ resp'.handler = "record_api_call") =>
               /\ today \in DOMAIN usage'
               /\ usage'[today].calls = Calls(usage, today) + 1
               /\ Len(usage'[today].log) = Len(Log(usage, today)) + 1
               /\ SubSeq(usage'[today].log, 1, Len(Log(usage, today)))
                     = Log(usage, today)
               /\ usage'[today].log[Len(usage'[today].log)].timestamp = now
               /\ resp'.body = usage'[today].calls
               /\ DOMAIN usage' = DOMAIN usage \cup {today}
               /\ \A d \in DOMAIN usage \ {today} : usage'[d] = usage[d]]_vars

\* a call was recorded beyond the limit while an earlier date has its record
C21_Witness ==
    /\ resp.handler = "record_api_call"
    /\ resp.body = MAX_API_CALLS_PER_DAY + 1
    /\ Calls(resp.before, today) = MAX_API_CALLS_PER_DAY
    /\ \E d \in DOMAIN usage : d # today /\ usage[d].calls = 1

\* C22: when the date advances the count of the new date is 0, the quota
\* check passes and the persisted snapshot is not valid, whatever the earlier
\* dates recorded; the quota check of a refresh follows the count of today
\* alone and the fast path the snapshot's date alone; no step changes the
\* ledger record of a date other than today
C22_DayRollover ==
    [][/\ (Date(now') # Date(now)) =>
            /\ Calls(usage', Date(now')) = 0
            /\ check_api_limit'
            /\ ~is_cache_valid(cache)'
       /\ \A r \in Req :
            /\ (pc[r] = "check" /\ pc'[r] # "check") =>
                  (pc'[r] = "request" <=>
                     Calls(usage, today) < MAX_API_CALLS_PER_DAY)
            /\ (pc[r] = "idle" /\ pc'[r] = "check") => Get(cache, "date") # today
       /\ \A d \in DOMAIN usage :
            (d # today) => (d \in DOMAIN usage' /\ usage'[d] = usage[d])]_vars

\* the day before used up its quota and persisted a snapshot; today's
\* refresh passed the quota check and was recorded beside yesterday's record
C22_Witness ==
    /\ Calls(usage, today - 1) = MAX_API_CALLS_PER_DAY
    /\ Get(cache, "date") = today - 1
    /\ Calls(usage, today) = 1
    /\ \E r \in Req : pc[r] = "tw"

----------------------------------------------------------------------------
(* Further properties of the snapshot refresh *)

\* C23: a call that found no valid snapshot has, when it returns, sent one
\* request to getStockInfo.jsp and one to the rate CSV, after at most one
\* GLOBAL_QUOTE request, whatever the outcome of each: denied, failed or
\* answered, no fetch is made a second time
C23_EachFetchOnce ==
    [][\A r \in Req : Finishes(r) =>
          /\ loc[r].requests \in {<<"tw", "fx">>, <<"adr", "tw", "fx">>}
          /\ ret'.fetched = {"adr", "tw", "fx"}]_vars

\* the GLOBAL_QUOTE request and the local quote both failed, the rate came,
\* and the call is about to return
C23_Witness ==
    \E r \in Req :
        /\ pc[r] = "finish"
        /\ loc[r].requests = <<"adr", "tw", "fx">>
        /\ loc[r].adr_price = None
        /\ loc[r].tw_price = None
        /\ loc[r].usd_twd = 32

\* the last call of this date returned without a receipt price of its own
LastWasLimited == Source(ret.value) = "cached_due_to_api_limit"

\* C24: after a call of this date returned cached_due_to_api_limit, and while
\* the quota check passes, the next call of the date does not take the fast
\* path, passes the quota check and sends the GLOBAL_QUOTE request; when that
\* gives a price the call persists and returns a fresh snapshot of today
C24_TransientNeverBlocks ==
    [][/\ (/\ \A q \in Req : pc[q] = "idle"
           /\ LastWasLimited
           /\ now' = now
           /\ (pc' # pc \/ ret' # ret)) =>
              \E r \in Req : pc'[r] = "check" /\ ret' = ret
       /\ \A r \in Req :
            /\ (pc[r] = "check" /\ LastWasLimited /\ check_api_limit
                  /\ pc'[r] # "check") => pc'[r] = "request"
            /\ (pc[r] = "request" /\ pc'[r] # "request") =>
                  /\ requests_today' = requests_today + 1
                  /\ loc'[r].requests = <<"adr">>
            /\ (Finishes(r) /\ LastWasLimited /\ loc[r].adr_price # None) =>
                  /\ Source(ret'.value) = "fresh_api_call"
                  /\ ret'.value["cache_date"] = today
                  /\ ret'.value["adr_price"] = loc[r].adr_price
                  /\ Get(cache', "date") = today
                  /\ Get(cache', "adr_price") = loc[r].adr_price
                  /\ Get(cache', "data_source") = "fresh_api_call"]_vars

\* the first call of the date got no price from its recorded request, the
\* second call of the date sent another request and persisted a fresh snapshot
C24_Witness ==
    /\ Source(ret.value) = "fresh_api_call"
    /\ requests_today = 2
    /\ records_today = 2
    /\ saves_today = 1
    /\ Get(cache, "date") = today
    /\ first_fresh = ret.value

----------------------------------------------------------------------------
(* Properties of the fetchers *)

\* a field of msgArray[0] that holds a value: present, not empty, not "-"
Usable(s) == s \notin {"None", "", "-"}

\* C25: fetch_tw_price returns the number of z when z is usable, else the
\* number of p when p is usable, else None; a missing or empty field and "-"
\* are not usable, so z = "-" with a numeric p gives the number of p
C25_FirstUsableField ==
    (resp.handler = "fetchers" /\ resp.tw # NotCalled) =>
        LET res == resp.tw.res
        IN  resp.tw.value =
              (IF res.kind # "msg" THEN None
               ELSE IF Usable(res.z) THEN Float(res.z)
               ELSE IF Usable(res.p) THEN Float(res.p)
               ELSE None)

----------------------------------------------------------------------------
(* Further properties of the handlers *)

\* C26: a call of the historical handler leaves the quota ledger and the
\* persisted snapshot as they were, and unless a pass of today is on file it
\* sends the TIME_SERIES_DAILY request, also when the quota check fails
C26_HistoricalNotGated ==
    [][(resp.handler = "none" /\ resp'.handler = "historical") =>
          /\ usage' = usage
          /\ cache' = cache
          /\ (last_fetch_date # today) => ("feed" \in resp'.requested)
          /\ (last_fetch_date = today) => (resp'.requested = {})]_vars

\* the quota of today is used up, a snapshot of today is on file, and the
\* historical handler sent its request and stored a record
C26_Witness ==
    /\ resp.handler = "historical"
    /\ ~check_api_limit
    /\ Get(cache, "date") = today
    /\ "feed" \in resp.requested
    /\ history # EmptyDict

\* C27: the ledger's count of every date is at most MAX_API_CALLS_PER_DAY,
\* and the remaining calls health_check reports are never negative
C27_CountWithinLimit ==
    /\ \A d \in DOMAIN usage : usage[d].calls <= MAX_API_CALLS_PER_DAY
    /\ health_check.calls_today <= health_check.limit
    /\ health_check.remaining >= 0

\* the count of today is at the limit, health_check reports nothing
\* remaining, and a refresh was refused its GLOBAL_QUOTE request
C27_Witness ==
    /\ calls_today(usage) = MAX_API_CALLS_PER_DAY
    /\ health_check.remaining = 0
    /\ \E r \in Req :
          /\ pc[r] = "tw"
          /\ "adr" \in loc[r].fetched
          /\ loc[r].requests = <<>>

\* C28: the snapshot file changes only in a refresh that obtained a receipt
\* price, which writes a snapshot dated today; a persisted snapshot has a
\* receipt price, a last_updated, the source fresh_api_call and the date of
\* its last_updated; a refresh without a receipt price leaves the file as
\* it was
C28_SnapshotOnlyWithReceipt ==
    /\ [](cache # EmptyDict =>
            /\ DOMAIN cache = {"date", "adr_price", "tw_price", "usd_twd",
                               "last_updated", "data_source"}
            /\ cache["adr_price"] # None
            /\ cache["last_updated"] # None
            /\ cache["data_source"] = "fresh_api_call"
            /\ cache["date"] = Date(cache["last_updated"])
            /\ cache["date"] <= today)
    /\ [][/\ (cache' # cache) =>
               \E r \in Req :
                  /\ Finishes(r)
                  /\ loc[r].adr_price # None
                  /\ cache'["adr_price"] = loc[r].adr_price
                  /\ cache'["date"] = today
                  /\ cache'["last_updated"] = now
          /\ \A r \in Req :
               (Finishes(r) /\ loc[r].adr_price = None) => cache' = cache]_vars

\* yesterday's snapshot is still on file after a refresh of today, without a
\* receipt price of its own, returned its receipt price with today's local
\* price
C28_Witness ==
    /\ Get(cache, "date") = today - 1
    /\ Get(cache, "adr_price") = 155
    /\ LastWasLimited
    /\ ret.value["adr_price"] = 155
    /\ ret.value["cache_date"] = today - 1
    /\ ret.value["tw_price"] = 800
    /\ ret.fetched = {"adr", "tw", "fx"}

\* the receipt price of a returned dict with the date and time it carries
Provenance(value) ==
    <<value["adr_price"], value["cache_date"], value["last_updated"]>>

\* C29: the receipt price, the date and last_updated of a returned dict are
\* either this call's fetched price with today and now, or the three fields
\* of the persisted snapshot; a returned receipt price comes with the date of
\* its last_updated, and a returned date of today comes with the receipt
\* price and the time of today's one fresh fetch
C29_OneProvenance ==
    /\ [](ret.value # EmptyDict =>
            /\ ret.value # Raised
            /\ (ret.value["adr_price"] # None) =>
                  /\ ret.value["cache_date"] # None
                  /\ ret.value["last_updated"] # None
                  /\ Date(ret.value["last_updated"]) = ret.value["cache_date"]
            /\ (ret.value["cache_date"] = today) =>
                  /\ first_fresh # EmptyDict
                  /\ Provenance(ret.value) = Provenance(first_fresh)
                  /\ ret.value["adr_price"] # None
                  /\ Date(ret.value["last_updated"]) = today)
    /\ [][(ret' # ret /\ now' = now) =>
             \/ \E r \in Req :
                   /\ Finishes(r)
                   /\ loc[r].adr_price # None
                   /\ Provenance(ret'.value) = <<loc[r].adr_price, today, now>>
             \/ Provenance(ret'.value) =
                   <<Get(cache, "adr_price"), Get(cache, "date"),
                     Get(cache, "last_updated")>>]_vars

\* a refresh of today without a receipt price of its own returned
\* yesterday's receipt price under yesterday's date and time, with no local
\* price
C29_Witness ==
    /\ LastWasLimited
    /\ ret.value["adr_price"] = 150
    /\ ret.value["cache_date"] = today - 1
    /\ Date(ret.value["last_updated"]) = today - 1
    /\ ret.value["tw_price"] = None
    /\ first_fresh = EmptyDict

----------------------------------------------------------------------------
(* Further properties of the historical backfill *)

\* C30: a call whose TIME_SERIES_DAILY request failed or was answered
\* without the series leaves every record of the store and last_fetch_date as
\* they were, and answers the series of the records already stored
C30_FeedFailureKeepsStore ==
    [][(hrequests_today' = hrequests_today + 1 /\ ~backfilled_today') =>
          /\ history' = history
          /\ last_fetch_date' = last_fetch_date
          /\ last_fetch_date' # today
          /\ last_pass' = last_pass
          /\ hret'.status_code = 200
          /\ hret'.data = Series(history, 30)]_vars

\* the feed failed today; the records an earlier day's pass stored are still
\* there and make up the answer
C30_Witness ==
    /\ hrequests_today >= 1
    /\ ~backfilled_today
    /\ last_fetch_date = today - 1
    /\ (today - 1) \in DOMAIN history
    /\ hret.status_code = 200
    /\ Len(hret.data) >= 1
    /\ hret.data[Len(hret.data)].date = today - 1

\* the entries of the last pass's feed, among its first 30, whose receipt
\* close parsed and whose local close was obtained
Written ==
    {i \in 1..Len(last_pass.feed) :
        /\ i <= 30
        /\ i <= Len(last_pass.tw_price)
        /\ IsNumeric(last_pass.feed[i].close)
        /\ last_pass.tw_price[i] # None}

----------------------------------------------------------------------------
(* Properties of the frontend *)

\* the positions of the URLs that answered with status 200
Answered200(urls, answer) ==
    {i \in 1..Len(urls) : answer[urls[i]] \in {"200 json", "200 not json"}}

\* C32: call_api asks the configured base URL first and then the fallback
\* URLs other than it, in list order, each at most once; it returns the JSON
\* of the first URL that answered with status 200 and asks no URL after it;
\* it returns None exactly when every URL raised a request error or answered
\* with another status
C32_FirstOkWins ==
    (resp.handler = "call_api") =>
        LET urls == urls_to_try(resp.base)
            ok == Answered200(urls, resp.answer)
        IN  /\ ~resp.raised
            /\ urls[1] = resp.base
            /\ \A i, j \in 1..Len(urls) : (i # j) => urls[i] # urls[j]
            /\ Len(resp.contacted) <= Len(urls)
            /\ resp.contacted = SubSeq(urls, 1, Len(resp.contacted))
            /\ IF ok # {}
               THEN /\ resp.body = Json(urls[Min(ok)])
                    /\ Len(resp.contacted) = Min(ok)
               ELSE /\ resp.body = EmptyDict
                    /\ resp.contacted = urls
            /\ (resp.body = EmptyDict) <=> (ok = {})

====
